---- MODULE Spec2Model ----
(***************************************************************************)
(* A model of sportstracker.py: the record store (three sheets: players,   *)
(* weeks, results), the sessions that read a snapshot of it and write to   *)
(* it, and the statistics functions computed over a snapshot               *)
(* (calculate_standings, calculate_improvement_trends).                    *)
(*                                                                         *)
(* Numbers.  A sheet cell holds a non-negative integer, or no number at    *)
(* all (Blank: the empty cell '' written for an omitted result, or text).  *)
(* pd.to_numeric(errors='coerce') maps such a cell to NaN.  Accuracies are *)
(* kept exact: a percentage rounded to one decimal is an integer number of *)
(* tenths, a regression slope is a pair of integers (numerator over a      *)
(* positive denominator).                                                  *)
(***************************************************************************)
EXTENDS Integers, Sequences, FiniteSets, TLC

VARIABLES data, ret, store, cache, sess, uuid, clock

vars == <<data, ret, store, cache, sess, uuid, clock>>

(***************************************************************************)
(* Bounds of the model.                                                    *)
(***************************************************************************)
MaxPlayers == 2
MaxWeeks == 2
MaxResults == 2
MaxGames == 2
MaxTrendWeeks == 4
TrendGames == 20
MaxSessions == 2
MaxStoreResults == 4
MaxWrites == 2
MaxPoints == 4
\* the confirmations of a deletion that are pending in one session
MaxPending == 1
\* the lines typed into the text area of 'Add Players'
MaxLines == 2

(***************************************************************************)
(* Cells and identifiers.                                                  *)
(***************************************************************************)
Blank == -1
NaN == -2
Inf == -3
None == -4

Seasons == {2024, 2025}

PlayerIdAt(i) == IF i = 1 THEN "p1" ELSE IF i = 2 THEN "p2" ELSE "p3"
WeekIdAt(i) == IF i = 1 THEN "w1" ELSE IF i = 2 THEN "w2" ELSE IF i = 3 THEN "w3"
               ELSE IF i = 4 THEN "w4" ELSE IF i = 5 THEN "w5" ELSE "w6"
NameOf(pid) == IF pid = "p1" THEN "Alice" ELSE IF pid = "p2" THEN "Bob" ELSE "Carol"

Abs(a) == IF a < 0 THEN -a ELSE a

\* pd.to_numeric(col, errors='coerce'): a cell that holds no number becomes NaN
ToNumeric(cell) == IF cell >= 0 THEN cell ELSE NaN

\* pd.notna
NotNa(v) == v # NaN

\* round(100 * num / den, 1) for den > 0, in tenths of a percent (round half to even)
RoundPct(num, den) ==
    LET q == (num * 1000) \div den
        r == (num * 1000) % den
    IN  IF 2 * r < den THEN q
        ELSE IF 2 * r > den THEN q + 1
        ELSE IF q % 2 = 0 THEN q ELSE q + 1

RECURSIVE SumSeq(_)
SumSeq(s) == IF s = <<>> THEN 0 ELSE Head(s) + SumSeq(Tail(s))

EmptyTable == [rows |-> <<>>, caught |-> FALSE]
ErrorTable == [rows |-> <<>>, caught |-> TRUE]

(***************************************************************************)
(* calculate_standings                                                     *)
(***************************************************************************)
\* lines 908-911: the numeric columns of the weeks sheet, coerced
CoerceWeeks(weeks) ==
    [i \in 1..Len(weeks) |->
        [id |-> weeks[i].id,
         season_year |-> ToNumeric(weeks[i].season_year),
         week_number |-> ToNumeric(weeks[i].week_number),
         total_games |-> ToNumeric(weeks[i].total_games)]]

\* line 917: the numeric column of the results sheet, coerced
CoerceResults(results) ==
    [i \in 1..Len(results) |->
        [id |-> results[i].id,
         player_id |-> results[i].player_id,
         week_id |-> results[i].week_id,
         correct_guesses |-> ToNumeric(results[i].correct_guesses),
         status |-> results[i].status]]

\* lines 920-922: the weeks in scope
FilterWeeksSeasonOnly(weeks, season_year, week_number) ==
    LET InSeason(w) == w.season_year = season_year
    IN  SelectSeq(weeks, InSeason)

FilterWeeks(weeks, season_year, week_number) ==
    LET InSeason(w) == w.season_year = season_year
        InWeek(w) == week_number = None \/ w.week_number = week_number
        season == SelectSeq(weeks, InSeason)
    IN  SelectSeq(season, InWeek)

\* lines 933-936: the player's results attached to a week in scope
PlayerResultsAnyWeek(results, player_id, week_ids) ==
    LET Mine(r) == r.player_id = player_id
    IN  SelectSeq(results, Mine)

PlayerResults(results, player_id, week_ids) ==
    LET Mine(r) == r.player_id = player_id /\ r.week_id \in week_ids
    IN  SelectSeq(results, Mine)

\* line 944: the results counted as participated
ParticipatedResults(player_results) ==
    LET NotOmitted(r) == r.status # "omitted"
    IN  SelectSeq(player_results, NotOmitted)

\* line 952: the player's results for one week
WeekResultAnyWeek(player_results, week_id) == player_results

WeekResult(player_results, week_id) ==
    LET ThisWeek(r) == r.week_id = week_id
    IN  SelectSeq(player_results, ThisWeek)

\* line 961: the score of a participated result, 0 when it is not a number
CorrectOf(result) ==
    IF NotNa(result.correct_guesses) THEN result.correct_guesses ELSE 0

\* lines 954-968: what one week adds to the four totals
WeekContribution(player_results, week) ==
    LET week_result == WeekResult(player_results, week.id)
    IN  IF week_result # <<>>
        THEN LET result == week_result[1]
             IN  IF result.status = "omitted"
                 THEN [ca |-> 0, pa |-> week.total_games, cj |-> 0, pj |-> 0]
                 ELSE [ca |-> CorrectOf(result), pa |-> week.total_games,
                       cj |-> CorrectOf(result), pj |-> week.total_games]
        ELSE [ca |-> 0, pa |-> week.total_games, cj |-> 0, pj |-> 0]

\* lines 971-972: a percentage, 0 when there is nothing possible
Accuracy(correct, possible) ==
    IF possible > 0 THEN RoundPct(correct, possible) ELSE 0

\* line 990
OmittedWeeksSwapped(total_weeks_absolute, total_weeks_adjusted) ==
    total_weeks_adjusted - total_weeks_absolute

OmittedWeeks(total_weeks_absolute, total_weeks_adjusted) ==
    total_weeks_absolute - total_weeks_adjusted

\* lines 931-991: the row of one player
StandingsRow(player, weeks, results) ==
    LET week_ids == {weeks[i].id : i \in 1..Len(weeks)}
        player_results == PlayerResults(results, player.id, week_ids)
        total_weeks_absolute == Len(weeks)
        total_weeks_adjusted == Len(ParticipatedResults(player_results))
        c == [i \in 1..Len(weeks) |-> WeekContribution(player_results, weeks[i])]
        total_correct_absolute == SumSeq([i \in 1..Len(weeks) |-> c[i].ca])
        total_possible_absolute == SumSeq([i \in 1..Len(weeks) |-> c[i].pa])
        total_correct_adjusted == SumSeq([i \in 1..Len(weeks) |-> c[i].cj])
        total_possible_adjusted == SumSeq([i \in 1..Len(weeks) |-> c[i].pj])
    IN  [player_name |-> player.name,
         weeks_absolute |-> total_weeks_absolute,
         correct_absolute |-> total_correct_absolute,
         possible_absolute |-> total_possible_absolute,
         accuracy_absolute |-> Accuracy(total_correct_absolute, total_possible_absolute),
         weeks_adjusted |-> total_weeks_adjusted,
         correct_adjusted |-> total_correct_adjusted,
         possible_adjusted |-> total_possible_adjusted,
         accuracy_adjusted |-> Accuracy(total_correct_adjusted, total_possible_adjusted),
         omitted_weeks |-> OmittedWeeks(total_weeks_absolute, total_weeks_adjusted)]

\* lines 896-1002.  An empty sheet is a DataFrame without columns, so
\* results_df['player_id'] (line 934) raises KeyError when there is no result;
\* int(week['total_games']) (lines 958, 963, 968) raises ValueError on NaN.
\* Either exception is caught at line 1000 and an empty table is returned.
calculate_standings(d, season_year, week_number) ==
    IF d.players = <<>> \/ d.weeks = <<>> THEN EmptyTable
    ELSE LET weeks_df == FilterWeeks(CoerceWeeks(d.weeks), season_year, week_number)
             results_df == CoerceResults(d.results)
         IN  IF weeks_df = <<>> THEN EmptyTable
             ELSE IF results_df = <<>> THEN ErrorTable
             ELSE IF \E i \in 1..Len(weeks_df) : ~NotNa(weeks_df[i].total_games)
                  THEN ErrorTable
             ELSE [rows |-> [i \in 1..Len(d.players) |->
                                StandingsRow(d.players[i], weeks_df, results_df)],
                   caught |-> FALSE]

(***************************************************************************)
(* linear_regression_improved and calculate_improvement_trends.            *)
(* The accuracies of one player are kept as integers over one common       *)
(* positive denominator; an accuracy that is not a finite number is NaN    *)
(* or Inf, as the float division of pandas yields.                         *)
(***************************************************************************)
MinWeeks == 3

RECURSIVE Gcd(_, _)
Gcd(a, b) == IF b = 0 THEN a ELSE Gcd(b, a % b)

Lcm(a, b) == (a \div Gcd(a, b)) * b

\* the least common multiple of the positive total_games of the rows
RECURSIVE LcmTotals(_)
LcmTotals(rows) ==
    IF rows = <<>> THEN 1
    ELSE IF Head(rows).total_games > 0
         THEN Lcm(Head(rows).total_games, LcmTotals(Tail(rows)))
         ELSE LcmTotals(Tail(rows))

IsFinite(v) == v # NaN /\ v # Inf

\* line 1119: correct_guesses / total_games * 100, as an integer over `den`
\* (`den` = L / gcd(100, L) for a multiple L of total_games); the float
\* division yields NaN for 0/0 and for a NaN operand, and inf for c/0, c > 0
AccuracyOfRatio(correct_guesses, total_games, L) ==
    IF ~NotNa(correct_guesses) \/ ~NotNa(total_games) THEN NaN
    ELSE IF total_games = 0 THEN (IF correct_guesses = 0 THEN NaN ELSE Inf)
    ELSE correct_guesses * (L \div total_games)

AccuracyOf(correct_guesses, total_games, L) ==
    IF ~NotNa(correct_guesses) \/ ~NotNa(total_games) THEN NaN
    ELSE IF total_games = 0 THEN (IF correct_guesses = 0 THEN NaN ELSE Inf)
    ELSE correct_guesses * (100 \div Gcd(100, L)) * (L \div total_games)

\* lines 1144-1149: the category of a slope num/den (den > 0), or of NaN
TrendCategory(slope) ==
    IF slope.nan THEN "Declining"
    ELSE IF 2 * Abs(slope.num) < slope.den THEN "Stable"
    ELSE IF 2 * slope.num > slope.den THEN "Improving"
    ELSE "Declining"

\* lines 335, 1133: |slope| >= 0.75 and r_squared >= 0.25 (false on NaN)
IsSignificantEither(slope, r_squared) ==
    /\ ~slope.nan
    /\ ~r_squared.nan
    /\ \/ 4 * Abs(slope.num) >= 3 * slope.den
       \/ 4 * r_squared.num >= r_squared.den

IsSignificant(slope, r_squared) ==
    /\ ~slope.nan
    /\ ~r_squared.nan
    /\ 4 * Abs(slope.num) >= 3 * slope.den
    /\ 4 * r_squared.num >= r_squared.den

\* lines 307, 319: the 0 returned for a degenerate input; without these
\* returns the quotient of line 321 would be 0/0
ZeroOverZero == [nan |-> TRUE, num |-> 0, den |-> 1]

Zero == [nan |-> FALSE, num |-> 0, den |-> 1]
NotANumber == [nan |-> TRUE, num |-> 0, den |-> 1]

\* lines 300-349, for week numbers x and accuracies y over the denominator yden
linear_regression_improved(x, y, yden) ==
    IF Len(x) < 3 \/ Len(y) < 3 \/ Len(x) # Len(y)
    THEN [slope |-> Zero, intercept |-> Zero, r_squared |-> Zero,
          is_significant |-> FALSE]
    ELSE IF \E i \in 1..Len(x) : ~IsFinite(x[i])
    THEN [slope |-> NotANumber, intercept |-> NotANumber, r_squared |-> NotANumber,
          is_significant |-> FALSE]
    ELSE LET n == Len(x)
             sum_x == SumSeq(x)
             sum_x2 == SumSeq([i \in 1..n |-> x[i] * x[i]])
             denominator == n * sum_x2 - sum_x * sum_x
         IN  IF denominator = 0
             THEN [slope |-> Zero,
                   intercept |-> IF \E i \in 1..n : ~IsFinite(y[i]) THEN NotANumber
                                 ELSE [nan |-> FALSE, num |-> SumSeq(y),
                                       den |-> n * yden],
                   r_squared |-> Zero, is_significant |-> FALSE]
             ELSE IF \E i \in 1..n : ~IsFinite(y[i])
             THEN [slope |-> NotANumber, intercept |-> NotANumber,
                   r_squared |-> NotANumber, is_significant |-> FALSE]
             ELSE LET sum_y == SumSeq(y)
                      sum_xy == SumSeq([i \in 1..n |-> x[i] * y[i]])
                      sum_y2 == SumSeq([i \in 1..n |-> y[i] * y[i]])
                      numerator_r == n * sum_xy - sum_x * sum_y
                      y_part == n * sum_y2 - sum_y * sum_y
                      slope == [nan |-> FALSE, num |-> numerator_r,
                                den |-> denominator * yden]
                      r_squared == IF denominator * y_part = 0 THEN Zero
                                   ELSE [nan |-> FALSE,
                                         num |-> numerator_r * numerator_r,
                                         den |-> denominator * y_part]
                      intercept == [nan |-> FALSE,
                                    num |-> sum_y * denominator - numerator_r * sum_x,
                                    den |-> n * denominator * yden]
                  IN  [slope |-> slope, intercept |-> intercept,
                       r_squared |-> r_squared,
                       is_significant |-> IsSignificant(slope, r_squared)]

\* line 1091: the weeks of the season
SeasonWeeks(weeks, season_year) ==
    LET InSeason(w) == w.season_year = season_year
    IN  SelectSeq(weeks, InSeason)

\* lines 1102-1106: the player's participated results of the season
TrendResultsAnyStatus(results, player_id, week_ids) ==
    LET Mine(r) == r.player_id = player_id /\ r.week_id \in week_ids
    IN  SelectSeq(results, Mine)

TrendResults(results, player_id, week_ids) ==
    LET Mine(r) == /\ r.player_id = player_id
                   /\ r.week_id \in week_ids
                   /\ r.status = "participated"
    IN  SelectSeq(results, Mine)

\* lines 1112-1115: inner join of the results with the weeks on the week id
RECURSIVE MergeWeeks(_, _)
MergeWeeks(player_results, season_weeks) ==
    IF player_results = <<>> THEN <<>>
    ELSE LET r == Head(player_results)
             Match(w) == w.id = r.week_id
             ws == SelectSeq(season_weeks, Match)
         IN  [k \in 1..Len(ws) |->
                 [week_id |-> r.week_id,
                  week_number |-> ws[k].week_number,
                  total_games |-> ws[k].total_games,
                  correct_guesses |-> r.correct_guesses]]
             \o MergeWeeks(Tail(player_results), season_weeks)

\* lines 1064, 1116: sort_values('week_number'), ascending, NaN last; rows
\* with equal week numbers keep their order
KeepOrder(rows) == rows

RECURSIVE SortByWeekNumber(_)
SortByWeekNumber(rows) ==
    IF rows = <<>> THEN <<>>
    ELSE LET sorted == SortByWeekNumber(SubSeq(rows, 1, Len(rows) - 1))
             last == rows[Len(rows)]
             LessEq(a, b) == b = NaN \/ (a # NaN /\ a <= b)
             Before(r) == LessEq(r.week_number, last.week_number)
             After(r) == ~LessEq(r.week_number, last.week_number)
         IN  SelectSeq(sorted, Before) \o <<last>> \o SelectSeq(sorted, After)

\* lines 1153-1156, round(v, 1): num/den (den > 0) in units of 1/scale, rounded
\* half to even
RoundScaled(num, den, scale) ==
    LET q == (num * scale) \div den
        r == (num * scale) % den
    IN  IF 2 * r < den THEN q
        ELSE IF 2 * r > den THEN q + 1
        ELSE IF q % 2 = 0 THEN q ELSE q + 1

\* round(v, 1) in tenths, NaN for a value that is not a finite number
Round1(v) == IF v.nan THEN NaN ELSE RoundScaled(v.num, v.den, 10)

\* lines 1135-1137: Series.mean() of accuracies over yden: NaN values are
\* skipped, an infinite value makes the mean infinite, no value gives NaN
MeanOf(values, yden) ==
    LET present == SelectSeq(values, NotNa)
    IN  IF present = <<>> \/ \E i \in 1..Len(present) : present[i] = Inf
        THEN NotANumber
        ELSE [nan |-> FALSE, num |-> SumSeq(present), den |-> Len(present) * yden]

\* line 1140: Series.std() (sample standard deviation, NaN values skipped),
\* kept as its square; NaN with fewer than two values
VarianceOf(values, yden) ==
    LET present == SelectSeq(values, NotNa)
        k == Len(present)
    IN  IF k < 2 \/ \E i \in 1..k : present[i] = Inf THEN NotANumber
        ELSE [nan |-> FALSE,
              num |-> k * SumSeq([i \in 1..k |-> present[i] * present[i]])
                        - SumSeq(present) * SumSeq(present),
              den |-> k * (k - 1) * yden * yden]

\* line 1156: recent_avg - early_avg
Difference(a, b) ==
    IF a.nan \/ b.nan THEN NotANumber
    ELSE [nan |-> FALSE, num |-> a.num * b.den - b.num * a.den, den |-> a.den * b.den]

\* lines 1135-1136: head(min_weeks) and tail(min_weeks)
HeadRowsFromEnd(rows, n) ==
    SubSeq(rows, IF Len(rows) > n THEN Len(rows) - n + 1 ELSE 1, Len(rows))

HeadRows(rows, n) == SubSeq(rows, 1, IF Len(rows) > n THEN n ELSE Len(rows))

TailRows(rows, n) ==
    SubSeq(rows, IF Len(rows) > n THEN Len(rows) - n + 1 ELSE 1, Len(rows))

\* lines 1097-1163: the record of one player, <<>> when the player is skipped
TrendRow(player, season_weeks, results) ==
    LET week_ids == {season_weeks[i].id : i \in 1..Len(season_weeks)}
        player_results == TrendResults(results, player.id, week_ids)
        player_weeks == SortByWeekNumber(MergeWeeks(player_results, season_weeks))
        L == LcmTotals(player_weeks)
        yden == L \div Gcd(100, L)
        weeks == [i \in 1..Len(player_weeks) |-> player_weeks[i].week_number]
        accuracies == [i \in 1..Len(player_weeks) |->
                          AccuracyOf(player_weeks[i].correct_guesses,
                                     player_weeks[i].total_games, L)]
        reg == linear_regression_improved(weeks, accuracies, yden)
        early_avg == MeanOf(HeadRows(accuracies, MinWeeks), yden)
        recent_avg == MeanOf(TailRows(accuracies, MinWeeks), yden)
        overall_avg == MeanOf(accuracies, yden)
    \* the record keeps the unrounded accuracies, slope, r_squared and averages
    \* next to the rounded averages; trend_slope and trend_r_squared (the
    \* rounded slope and r_squared) are not in it, and the volatility is kept
    \* as its square
    IN  IF Len(player_results) < MinWeeks \/ Len(player_weeks) < MinWeeks THEN <<>>
        ELSE <<[player_name |-> player.name,
                weeks_played |-> Len(player_weeks),
                accuracies |-> accuracies,
                yden |-> yden,
                mean_early |-> early_avg,
                mean_recent |-> recent_avg,
                mean_difference |-> Difference(recent_avg, early_avg),
                overall_accuracy |-> Round1(overall_avg),
                early_avg |-> Round1(early_avg),
                recent_avg |-> Round1(recent_avg),
                improvement |-> Round1(Difference(recent_avg, early_avg)),
                volatility |-> VarianceOf(accuracies, yden),
                slope |-> reg.slope,
                r_squared |-> reg.r_squared,
                trend_category |-> TrendCategory(reg.slope),
                trend_significance |-> IF IsSignificant(reg.slope, reg.r_squared)
                                       THEN "Meaningful" ELSE "Inconclusive"]>>

RECURSIVE TrendRows(_, _, _)
TrendRows(players, season_weeks, results) ==
    IF players = <<>> THEN <<>>
    ELSE TrendRow(Head(players), season_weeks, results)
         \o TrendRows(Tail(players), season_weeks, results)

\* lines 1070-1169
calculate_improvement_trends(d, season_year) ==
    IF d.players = <<>> \/ d.weeks = <<>> \/ d.results = <<>> THEN EmptyTable
    ELSE LET season_weeks == SeasonWeeks(CoerceWeeks(d.weeks), season_year)
         IN  IF season_weeks = <<>> THEN EmptyTable
             ELSE [rows |-> TrendRows(d.players, season_weeks, CoerceResults(d.results)),
                   caught |-> FALSE]

(***************************************************************************)
(* get_player_history and get_rolling_averages.  An accuracy of a history  *)
(* row is null or the exact fraction num/den (den > 0) of a percentage.    *)
(***************************************************************************)
Window == 3

\* a fraction in lowest terms (d > 0)
Frac(n, d) == [null |-> FALSE, num |-> n \div Gcd(Abs(n), d), den |-> d \div Gcd(Abs(n), d)]

Null == [null |-> TRUE, num |-> 0, den |-> 1]

\* the status cell of a week without a matching result, before fillna
NoStatus == "NaN"

\* lines 1028-1030: the rows of the players table with the given name
PlayerRowAny(players, player_name) == players

PlayerRow(players, player_name) ==
    LET Named(p) == p.name = player_name
    IN  SelectSeq(players, Named)

HistoryResultsAnyPlayer(results, player_id) == results

\* line 1038: the results of the player
HistoryResults(results, player_id) ==
    LET Mine(r) == r.player_id = player_id
    IN  SelectSeq(results, Mine)

\* lines 1041-1047: left join of the weeks with the player's results on the
\* week id; a week without a result keeps one row with NaN result cells
RECURSIVE LeftMerge(_, _)
LeftMerge(weeks, player_results) ==
    IF weeks = <<>> THEN <<>>
    ELSE LET w == Head(weeks)
             Match(r) == r.week_id = w.id
             rs == SelectSeq(player_results, Match)
         IN  (IF rs = <<>>
              THEN <<[week_number |-> w.week_number, total_games |-> w.total_games,
                      correct_guesses |-> NaN, status |-> NoStatus]>>
              ELSE [k \in 1..Len(rs) |->
                      [week_number |-> w.week_number, total_games |-> w.total_games,
                       correct_guesses |-> rs[k].correct_guesses,
                       status |-> rs[k].status]])
             \o LeftMerge(Tail(weeks), player_results)

\* lines 1053-1058: correct_guesses / total_games * 100, or None; a NaN
\* total_games is not > 0
HistoryAccuracyUnguarded(row) ==
    IF NotNa(row.correct_guesses) /\ row.status # "omitted"
    THEN [null |-> FALSE, num |-> row.correct_guesses * 100, den |-> row.total_games]
    ELSE Null

HistoryAccuracy(row) ==
    IF NotNa(row.correct_guesses) /\ row.status # "omitted" /\ row.total_games > 0
    THEN Frac(row.correct_guesses * 100, row.total_games)
    ELSE Null

\* lines 1053-1064: the columns returned, after the two fillna
HistoryRow(row) ==
    [week_number |-> row.week_number,
     total_games |-> row.total_games,
     correct_guesses |-> IF NotNa(row.correct_guesses) THEN row.correct_guesses ELSE 0,
     accuracy |-> HistoryAccuracy(row),
     status |-> IF row.status = NoStatus THEN "no_result" ELSE row.status]

\* lines 1004-1068.  With an empty results sheet results_df['player_id']
\* (line 1038) raises KeyError, caught at line 1066.
get_player_history(d, player_name, season_year) ==
    IF d.players = <<>> \/ d.weeks = <<>> THEN EmptyTable
    ELSE LET player_row == PlayerRow(d.players, player_name)
         IN  IF player_row = <<>> THEN EmptyTable
             ELSE IF d.results = <<>> THEN ErrorTable
             ELSE LET weeks_df == SeasonWeeks(CoerceWeeks(d.weeks), season_year)
                      player_results == HistoryResults(CoerceResults(d.results),
                                                       player_row[1].id)
                      history == LeftMerge(weeks_df, player_results)
                  IN  IF history = <<>> THEN EmptyTable
                      ELSE [rows |-> SortByWeekNumber(
                                        [i \in 1..Len(history) |-> HistoryRow(history[i])]),
                            caught |-> FALSE]

\* sum of two fractions, in lowest terms
AddFrac(a, b) ==
    LET den == Lcm(a.den, b.den)
    IN  Frac(a.num * (den \div a.den) + b.num * (den \div b.den), den)

RECURSIVE SumFrac(_)
SumFrac(fs) == IF fs = <<>> THEN Frac(0, 1) ELSE AddFrac(Head(fs), SumFrac(Tail(fs)))

WindowFromStart(rows, i, window) ==
    LET Defined(r) == ~r.accuracy.null
        in_window == SelectSeq(SubSeq(rows, 1, i), Defined)
    IN  [k \in 1..Len(in_window) |-> in_window[k].accuracy]

\* the non-null accuracies of the rows at positions max(1, i - window + 1)..i
WindowValues(rows, i, window) ==
    LET lo == IF i - window + 1 > 1 THEN i - window + 1 ELSE 1
        Defined(r) == ~r.accuracy.null
        in_window == SelectSeq(SubSeq(rows, lo, i), Defined)
    IN  [k \in 1..Len(in_window) |-> in_window[k].accuracy]

\* line 1184: rolling(window, min_periods=1).mean(): the mean of the non-null
\* values of the window, null when there is none
RollingMean(values) ==
    IF values = <<>> THEN Null
    ELSE LET total == SumFrac(values)
         IN  Frac(total.num, total.den * Len(values))

\* line 1185: rolling(window, min_periods=1).std(), kept as its square (the
\* sample variance): null with fewer than two non-null values in the window
RollingVariance(values) ==
    IF Len(values) < 2 THEN Null
    ELSE LET k == Len(values)
             total == SumFrac(values)
             squares == SumFrac([j \in 1..k |->
                                    Frac(values[j].num * values[j].num,
                                         values[j].den * values[j].den)])
             den == Lcm(squares.den, total.den * total.den)
         IN  Frac(k * squares.num * (den \div squares.den)
                    - total.num * total.num * (den \div (total.den * total.den)),
                  den * k * (k - 1))

\* lines 1171-1191
get_rolling_averages(d, player_name, season_year, window) ==
    LET history == get_player_history(d, player_name, season_year)
        Participated(r) == r.status = "participated"
        participated == SelectSeq(history.rows, Participated)
    IN  IF history.rows = <<>> THEN [rows |-> <<>>, caught |-> history.caught]
        ELSE IF Len(participated) < window THEN EmptyTable
        ELSE [rows |-> [i \in 1..Len(participated) |->
                          [week_number |-> participated[i].week_number,
                           total_games |-> participated[i].total_games,
                           correct_guesses |-> participated[i].correct_guesses,
                           accuracy |-> participated[i].accuracy,
                           status |-> participated[i].status,
                           rolling_avg |-> RollingMean(
                               WindowValues(participated, i, window)),
                           rolling_std |-> RollingVariance(
                               WindowValues(participated, i, window))]],
              caught |-> FALSE]

(***************************************************************************)
(* Snapshots: what get_all_data hands to the statistics functions.         *)
(***************************************************************************)
ResultIdAt(i) == IF i = 1 THEN "r1" ELSE IF i = 2 THEN "r2" ELSE IF i = 3 THEN "r3"
                 ELSE IF i = 4 THEN "r4" ELSE IF i = 5 THEN "r5" ELSE IF i = 6 THEN "r6"
                 ELSE IF i = 7 THEN "r7" ELSE "r8"

Player(pid) == [id |-> pid, name |-> NameOf(pid)]

\* the sequences of distinct players, of length 0..n
PlayerSeqs(n) ==
    LET ids == {PlayerIdAt(i) : i \in 1..n}
    IN  UNION {{[i \in 1..k |-> Player(f[i])] :
                  f \in {g \in [1..k -> ids] : \A a, b \in 1..k : a # b => g[a] # g[b]}} :
               k \in 0..n}

\* the week sheets of 0..n rows; the row at position i has id WeekIdAt(i)
WeekSeqs(n, seasons, numbers, games) ==
    UNION {{[i \in 1..k |-> [id |-> WeekIdAt(i), season_year |-> f[i][1],
                             week_number |-> f[i][2], total_games |-> f[i][3]]] :
              f \in [1..k -> seasons \X numbers \X games]} : k \in 0..n}

\* a result row is omitted (with an empty score cell) or participated with a score
Outcomes(scores) ==
    {<<"omitted", Blank>>} \cup {<<"participated", c>> : c \in scores}

\* the result sheets of 0..n rows; the row at position i has id ResultIdAt(i)
ResultSeqs(n, pids, wids, outcomes) ==
    UNION {{[i \in 1..k |-> [id |-> ResultIdAt(i), player_id |-> f[i][1],
                             week_id |-> f[i][2], correct_guesses |-> f[i][3][2],
                             status |-> f[i][3][1]]] :
              f \in [1..k -> pids \X wids \X outcomes]} : k \in 0..n}

\* the snapshots whose week cells are drawn from seasons, numbers and games
\* and whose scores are drawn from scores
Snapshots(seasons, numbers, games, scores) ==
    [players : PlayerSeqs(MaxPlayers),
     weeks : WeekSeqs(MaxWeeks, seasons, numbers, games),
     results : ResultSeqs(MaxResults, {PlayerIdAt(i) : i \in 1..MaxPlayers},
                          {WeekIdAt(i) : i \in 1..MaxWeeks},
                          Outcomes(scores))]

NoData == [players |-> <<>>, weeks |-> <<>>, results |-> <<>>]
NoCall == [fn |-> "none"]
NoSessions == <<>>
NoCache == [valid |-> FALSE, data |-> NoData]

(***************************************************************************)
(* Spec: calculate_standings applied to an arbitrary snapshot.             *)
(***************************************************************************)
Init ==
    /\ data \in Snapshots(Seasons, 1..MaxWeeks, 0..MaxGames, 0..MaxGames)
    /\ ret = NoCall
    /\ store = NoData
    /\ cache = NoCache
    /\ sess = NoSessions
    /\ uuid = 0
    /\ clock = 0

\* lines 899-901 and 1007-1009: the functions work on copies of the three
\* tables, and the coerced columns (lines 908-917) are assigned to the copies;
\* the snapshot the caller holds keeps its cells.  Without the copies the
\* coerced columns would replace the snapshot's.
SnapshotCoerced(d) ==
    IF d.players = <<>> \/ d.weeks = <<>> THEN d
    ELSE [players |-> d.players,
          weeks |-> CoerceWeeks(d.weeks),
          results |-> CoerceResults(d.results)]

SnapshotAfterCall(d) == d

CallStandings ==
    /\ ret = NoCall
    /\ \E season_year \in Seasons, week_number \in {None} \cup (1..MaxWeeks) :
          ret' = [fn |-> "calculate_standings",
                  season_year |-> season_year,
                  week_number |-> week_number,
                  out |-> calculate_standings(data, season_year, week_number)]
    /\ data' = SnapshotAfterCall(data)
    /\ UNCHANGED <<store, cache, sess, uuid, clock>>

Next == CallStandings

Spec == Init /\ [][Next]_vars

(***************************************************************************)
(* SpecTrends: calculate_improvement_trends applied to a season of up to   *)
(* MaxTrendWeeks weeks of TrendGames games (or of 0 games), in which the   *)
(* first player has at most one Result per week.                           *)
(***************************************************************************)
TrendWeekSeqs ==
    UNION {{[i \in 1..k |->
                [id |-> WeekIdAt(i),
                 season_year |-> IF i = k THEN last ELSE 2025,
                 week_number |-> IF asc THEN i ELSE k + 1 - i,
                 total_games |-> g[i]]] :
              g \in [1..k -> {0, TrendGames}], asc \in BOOLEAN, last \in Seasons} :
           k \in (MaxTrendWeeks - 1)..MaxTrendWeeks}

RECURSIVE TrendResultRows(_, _, _)
TrendResultRows(o, i, k) ==
    IF i > k THEN <<>>
    ELSE (IF o[i] = <<"none", Blank>> THEN <<>>
          ELSE <<[id |-> ResultIdAt(i), player_id |-> PlayerIdAt(1),
                  week_id |-> WeekIdAt(i), correct_guesses |-> o[i][2],
                  status |-> o[i][1]]>>)
         \o TrendResultRows(o, i + 1, k)

\* the snapshots with the weeks w
TrendSnapshots(w) ==
    [players : PlayerSeqs(MaxPlayers),
     weeks : {w},
     results : {TrendResultRows(o, 1, Len(w)) :
                  o \in [1..Len(w) -> {<<"none", Blank>>} \cup Outcomes(0..MaxGames)]}]

InitTrends ==
    /\ \E w \in TrendWeekSeqs : data \in TrendSnapshots(w)
    /\ ret = NoCall
    /\ store = NoData
    /\ cache = NoCache
    /\ sess = NoSessions
    /\ uuid = 0
    /\ clock = 0

CallTrends ==
    /\ ret = NoCall
    /\ \E season_year \in Seasons :
          ret' = [fn |-> "calculate_improvement_trends",
                  season_year |-> season_year,
                  out |-> calculate_improvement_trends(data, season_year)]
    /\ UNCHANGED <<data, store, cache, sess, uuid, clock>>

NextTrends == CallTrends

SpecTrends == InitTrends /\ [][NextTrends]_vars

(***************************************************************************)
(* SpecSheet: calculate_standings applied to the sheets as they may be     *)
(* read: a numeric cell may be empty or hold text.                         *)
(***************************************************************************)
InitSheet ==
    /\ data \in Snapshots({2025, Blank}, {1, Blank}, {MaxGames, Blank}, {1, Blank})
    /\ ret = NoCall
    /\ store = NoData
    /\ cache = NoCache
    /\ sess = NoSessions
    /\ uuid = 0
    /\ clock = 0

SpecSheet == InitSheet /\ [][Next]_vars

(***************************************************************************)
(* SpecTwice: calculate_standings applied twice, with the same arguments,  *)
(* to the snapshot as the first call left it.                              *)
(***************************************************************************)
CallStandingsAgain ==
    /\ ret.fn = "calculate_standings"
    /\ ret' = [fn |-> "calculate_standings again",
               season_year |-> ret.season_year,
               week_number |-> ret.week_number,
               first |-> ret.out,
               out |-> calculate_standings(data, ret.season_year, ret.week_number)]
    /\ data' = SnapshotAfterCall(data)
    /\ UNCHANGED <<store, cache, sess, uuid, clock>>

NextTwice == CallStandings \/ CallStandingsAgain

SpecTwice == InitSheet /\ [][NextTwice]_vars

(***************************************************************************)
(* SpecHistory: get_player_history and get_rolling_averages applied to a   *)
(* snapshot of Window weeks, listed in ascending or descending week_number *)
(* order, in which the first player has at most one Result per week; the   *)
(* results sheet lists them in the order of the weeks or in reverse order. *)
(***************************************************************************)
Reverse(s) == [i \in 1..Len(s) |-> s[Len(s) + 1 - i]]

HistoryWeekSeqs ==
    {[i \in 1..Window |->
         [id |-> WeekIdAt(i),
          season_year |-> IF i = Window THEN last ELSE 2025,
          week_number |-> IF asc THEN i ELSE Window + 1 - i,
          total_games |-> g[i]]] :
       g \in [1..Window -> {0, MaxGames}], asc \in BOOLEAN, last \in Seasons}

HistoryResultSeqs ==
    UNION {{TrendResultRows(o, 1, Window), Reverse(TrendResultRows(o, 1, Window))} :
             o \in [1..Window -> {<<"none", Blank>>} \cup Outcomes(0..MaxGames)]}

\* the snapshots with the weeks w
HistorySnapshots(w) ==
    [players : PlayerSeqs(MaxPlayers),
     weeks : {w},
     results : HistoryResultSeqs]

\* the names asked for: those of the players and one that no player has
HistoryNames == {NameOf(PlayerIdAt(i)) : i \in 1..MaxPlayers} \cup {"Dave"}

InitHistory ==
    /\ \E w \in HistoryWeekSeqs : data \in HistorySnapshots(w)
    /\ ret = NoCall
    /\ store = NoData
    /\ cache = NoCache
    /\ sess = NoSessions
    /\ uuid = 0
    /\ clock = 0

CallHistory ==
    /\ ret = NoCall
    /\ \E player_name \in HistoryNames, season_year \in Seasons :
          ret' = [fn |-> "get_player_history",
                  player_name |-> player_name,
                  season_year |-> season_year,
                  out |-> get_player_history(data, player_name, season_year)]
    /\ data' = SnapshotAfterCall(data)
    /\ UNCHANGED <<store, cache, sess, uuid, clock>>

CallRolling ==
    /\ ret = NoCall
    /\ \E player_name \in HistoryNames, season_year \in Seasons :
          ret' = [fn |-> "get_rolling_averages",
                  player_name |-> player_name,
                  season_year |-> season_year,
                  out |-> get_rolling_averages(data, player_name, season_year, Window)]
    /\ data' = SnapshotAfterCall(data)
    /\ UNCHANGED <<store, cache, sess, uuid, clock>>

NextHistory == CallHistory \/ CallRolling

SpecHistory == InitHistory /\ [][NextHistory]_vars

(***************************************************************************)
(* get_rolling_averages on a season of Window + 1 weeks, so that a full     *)
(* trailing window leaves the first week out.                               *)
(***************************************************************************)
RollingWeekSeqs ==
    {[i \in 1..(Window + 1) |->
         [id |-> WeekIdAt(i),
          season_year |-> 2025,
          week_number |-> IF asc THEN i ELSE Window + 2 - i,
          total_games |-> g[i]]] :
       g \in [1..(Window + 1) -> {0, MaxGames}], asc \in BOOLEAN}

\* the snapshots with the weeks w
RollingSnapshots(w) ==
    [players : PlayerSeqs(MaxPlayers),
     weeks : {w},
     results : {TrendResultRows(o, 1, Len(w)) :
                  o \in [1..Len(w) -> {<<"none", Blank>>} \cup Outcomes(0..MaxGames)]}]

InitRolling ==
    /\ \E w \in RollingWeekSeqs : data \in RollingSnapshots(w)
    /\ ret = NoCall
    /\ store = NoData
    /\ cache = NoCache
    /\ sess = NoSessions
    /\ uuid = 0
    /\ clock = 0

NextRolling == CallRolling

SpecRolling == InitRolling /\ [][NextRolling]_vars

(***************************************************************************)
(* SpecRegression: linear_regression_improved applied to up to MaxPoints   *)
(* week numbers x and up to MaxPoints values y (whole numbers, so the      *)
(* denominator of y is 1).                                                 *)
(***************************************************************************)
\* the sequences over S of length 0..n
SeqsUpTo(S, n) == UNION {[1..k -> S] : k \in 0..n}

InitRegression ==
    /\ data \in [x : SeqsUpTo(1..MaxWeeks, MaxPoints),
                  y : SeqsUpTo(0..MaxGames, MaxPoints)]
    /\ ret = NoCall
    /\ store = NoData
    /\ cache = NoCache
    /\ sess = NoSessions
    /\ uuid = 0
    /\ clock = 0

CallRegression ==
    /\ ret = NoCall
    /\ ret' = [fn |-> "linear_regression_improved",
               out |-> linear_regression_improved(data.x, data.y, 1)]
    /\ UNCHANGED <<data, store, cache, sess, uuid, clock>>

NextRegression == CallRegression

SpecRegression == InitRegression /\ [][NextRegression]_vars

(***************************************************************************)
(* SpecApp: the record store and the sessions of the application.  A       *)
(* session keeps the snapshot it loaded (st.session_state.data); every     *)
(* handler reads that snapshot and writes to the store.  A handler is one  *)
(* step; clock counts the writes to the store, at most MaxWrites.  The     *)
(* store starts with the players, the weeks and one Result.                *)
(***************************************************************************)
Sessions == 1..MaxSessions

FirstStore ==
    [players |-> [i \in 1..MaxPlayers |-> Player(PlayerIdAt(i))],
     weeks |-> [i \in 1..MaxWeeks |->
                  [id |-> WeekIdAt(i), season_year |-> 2025, week_number |-> i,
                   total_games |-> MaxGames]],
     results |-> <<[id |-> ResultIdAt(1), player_id |-> PlayerIdAt(1),
                    week_id |-> WeekIdAt(1), correct_guesses |-> MaxGames,
                    status |-> "participated"]>>]

InitApp ==
    /\ data = NoData
    /\ ret = NoCall
    /\ store = FirstStore
    /\ cache = NoCache
    /\ sess = [s \in Sessions |-> [loaded |-> FALSE, data |-> NoData, confirm |-> {}]]
    /\ uuid = 1
    /\ clock = 0

\* lines 98-139: get_all_data, cached by st.cache_data
get_all_data == IF cache.valid THEN cache.data ELSE store

\* lines 1209-1215: a run of the script loads the data when the session has
\* none or when its data is more than 300 seconds old
LoadData(s) ==
    /\ sess' = [sess EXCEPT ![s].loaded = TRUE, ![s].data = get_all_data]
    /\ cache' = [valid |-> TRUE, data |-> get_all_data]
    /\ UNCHANGED <<data, ret, store, uuid, clock>>

\* line 98: the cached value expires (ttl=300)
CacheExpire ==
    /\ cache.valid
    /\ cache' = NoCache
    /\ UNCHANGED <<data, ret, store, sess, uuid, clock>>

\* lines 1234-1239: the Refresh Data button
RefreshData(s) ==
    /\ sess[s].loaded
    /\ sess' = [sess EXCEPT ![s].data = store]
    /\ cache' = [valid |-> TRUE, data |-> store]
    /\ UNCHANGED <<data, ret, store, uuid, clock>>

\* position of the first row with the given id, 0 when there is none
FirstWithId(rows, id) ==
    LET hits == {i \in 1..Len(rows) : rows[i].id = id}
    IN  IF hits = {} THEN 0 ELSE CHOOSE i \in hits : \A k \in hits : i <= k

\* lines 472-510: update_result_batch on the results sheet
update_result_batch(results, result_id, correct_guesses, status) ==
    LET i == FirstWithId(results, result_id)
    IN  IF i = 0 THEN [ok |-> FALSE, results |-> results]
        ELSE [ok |-> TRUE,
              results |-> [results EXCEPT
                  ![i].correct_guesses = IF status # "omitted" THEN correct_guesses
                                         ELSE Blank,
                  ![i].status = status]]

\* lines 1376-1383: the first Result of the pair in the session's snapshot
ExistingResult(snapshot_results, player_id, week_id) ==
    LET Same(r) == r.player_id = player_id /\ r.week_id = week_id
    IN  SelectSeq(snapshot_results, Same)

\* lines 1374-1400 (and 1530-1556): one pass over the entries to save; an
\* entry whose pair is in the snapshot updates that Result in the store,
\* any other entry becomes a new row
RECURSIVE ProcessEntries(_, _, _, _, _)
ProcessEntries(entries, snapshot_results, week_id, acc, next_id) ==
    IF entries = <<>> THEN acc
    ELSE LET e == Head(entries)
             existing == ExistingResult(snapshot_results, e.player_id, week_id)
         IN  IF existing # <<>>
             THEN LET u == update_result_batch(acc.results, existing[1].id,
                                               e.correct_guesses, e.status)
                  IN  ProcessEntries(Tail(entries), snapshot_results, week_id,
                          [acc EXCEPT !.results = u.results,
                                      !.updated_count = @ + (IF u.ok THEN 1 ELSE 0)],
                          next_id)
             ELSE ProcessEntries(Tail(entries), snapshot_results, week_id,
                      [acc EXCEPT !.new_results = Append(@,
                          [id |-> ResultIdAt(next_id),
                           player_id |-> e.player_id,
                           week_id |-> week_id,
                           correct_guesses |-> IF e.status # "omitted"
                                               THEN e.correct_guesses ELSE Blank,
                           status |-> e.status])],
                      next_id + 1)

\* lines 1362-1422 and 1517-1578: the effect of a click on a save button.
\* With no Result in the snapshot the sheet has no columns and
\* results_df_for_updates['player_id'] raises: nothing is written.
SaveEntries(s, week_id, entries) ==
    IF sess[s].data.results = <<>>
    THEN UNCHANGED <<store, cache, uuid, clock>>
    ELSE LET done == ProcessEntries(entries, sess[s].data.results, week_id,
                        [results |-> store.results, new_results |-> <<>>,
                         updated_count |-> 0], uuid + 1)
         IN  /\ Len(store.results) + Len(done.new_results) <= MaxStoreResults
             /\ store' = [store EXCEPT !.results = done.results \o done.new_results]
             /\ uuid' = uuid + Len(done.new_results)
             /\ cache' = IF done.updated_count > 0 \/ done.new_results # <<>>
                         THEN NoCache ELSE cache
             /\ clock' = IF done.updated_count > 0 \/ done.new_results # <<>>
                         THEN clock + 1 ELSE clock

\* lines 1301-1357: the entry widgets, one per player of the snapshot
EntryChoices(total_games) ==
    {<<"omitted", 0>>} \cup {<<"participated", c>> : c \in 0..total_games}

\* lines 1362-1422: Save/Update All Results
SaveAllResults(s) ==
    /\ clock < MaxWrites
    /\ sess[s].loaded
    /\ sess[s].data.players # <<>>
    /\ \E w \in 1..Len(sess[s].data.weeks) :
         LET week == sess[s].data.weeks[w]
             players == sess[s].data.players
         IN  \E f \in [1..Len(players) -> EntryChoices(week.total_games)] :
                SaveEntries(s, week.id,
                    [i \in 1..Len(players) |->
                        [player_id |-> players[i].id,
                         correct_guesses |-> f[i][2],
                         status |-> f[i][1]]])
    /\ UNCHANGED <<data, ret, sess>>

\* lines 1458-1578: Save/Update Bulk Results; each line names a player of the
\* snapshot and gives "omitted" or a score within 0..total_games, and the
\* button shows when at least one line was parsed
RECURSIVE ParsedEntries(_, _, _)
ParsedEntries(players, f, i) ==
    IF i > Len(players) THEN <<>>
    ELSE (IF f[i] = <<"no line", 0>> THEN <<>>
          ELSE <<[player_id |-> players[i].id,
                  correct_guesses |-> f[i][2],
                  status |-> f[i][1]]>>)
         \o ParsedEntries(players, f, i + 1)

SaveBulkResults(s) ==
    /\ clock < MaxWrites
    /\ sess[s].loaded
    /\ sess[s].data.players # <<>>
    /\ \E w \in 1..Len(sess[s].data.weeks) :
         LET week == sess[s].data.weeks[w]
             players == sess[s].data.players
         IN  \E f \in [1..Len(players) ->
                         {<<"no line", 0>>} \cup EntryChoices(week.total_games)] :
                /\ ParsedEntries(players, f, 1) # <<>>
                /\ SaveEntries(s, week.id, ParsedEntries(players, f, 1))
    /\ UNCHANGED <<data, ret, sess>>

\* lines 691-736: update_week_batch on the weeks sheet
update_week_batch(weeks, week_id, week_number, total_games) ==
    LET i == FirstWithId(weeks, week_id)
    IN  IF i = 0 THEN [ok |-> FALSE, weeks |-> weeks]
        ELSE [ok |-> TRUE,
              weeks |-> [weeks EXCEPT ![i].week_number = week_number,
                                      ![i].total_games = total_games]]

\* lines 2486-2513: Update Week; the week's date is not kept in the model,
\* new_week_date says whether the date entered differs from the week's
UpdateWeek(s) ==
    /\ clock < MaxWrites
    /\ sess[s].loaded
    /\ \E w \in 1..Len(sess[s].data.weeks),
          new_week_number \in 1..(MaxWeeks + 1), new_total_games \in 1..MaxGames,
          new_week_date \in BOOLEAN :
         LET week == sess[s].data.weeks[w]
             InSeason(x) == x.season_year = week.season_year
             season_weeks == SelectSeq(sess[s].data.weeks, InSeason)
             taken == \E k \in 1..Len(season_weeks) :
                         /\ season_weeks[k].week_number = new_week_number
                         /\ season_weeks[k].id # week.id
             changes_made == \/ new_week_number # week.week_number
                             \/ new_total_games # week.total_games
                             \/ new_week_date
             u == update_week_batch(store.weeks, week.id, new_week_number,
                                    new_total_games)
         IN  IF (new_week_number # week.week_number /\ taken) \/ ~changes_made \/ ~u.ok
             THEN UNCHANGED <<store, cache, clock>>
             ELSE /\ store' = [store EXCEPT !.weeks = u.weeks]
                  /\ cache' = NoCache
                  /\ clock' = clock + 1
    /\ UNCHANGED <<data, ret, sess, uuid>>

NextApp ==
    \/ CacheExpire
    \/ \E s \in Sessions :
          \/ LoadData(s)
          \/ RefreshData(s)
          \/ SaveAllResults(s)
          \/ SaveBulkResults(s)
          \/ UpdateWeek(s)

SpecApp == InitApp /\ [][NextApp]_vars

(***************************************************************************)
(* The delete buttons of the page "Manage Players & Weeks".  A request to   *)
(* the sheets API either succeeds or raises; `api` says which requests of a *)
(* call succeed.  The field `confirm` of a session holds the ids whose key  *)
(* confirm_delete_player_<id> or confirm_delete_week_<id> is set in         *)
(* st.session_state.                                                        *)
(***************************************************************************)
\* the rows of a sheet without those at the positions S
RECURSIVE RemoveAt(_, _, _)
RemoveAt(rows, S, i) ==
    IF i > Len(rows) THEN <<>>
    ELSE (IF i \in S THEN <<>> ELSE <<rows[i]>>) \o RemoveAt(rows, S, i + 1)

\* lines 738-772: one batch request that deletes the rows; False, and no row
\* deleted, when the request raises
delete_rows_batch(rows, row_numbers, request_ok) ==
    IF request_ok THEN [ok |-> TRUE, rows |-> RemoveAt(rows, row_numbers, 1)]
    ELSE [ok |-> FALSE, rows |-> rows]

\* lines 241-290: the results of the two delete_rows_batch calls are not
\* looked at (lines 282-285); False only when reading the sheets raises
delete_player_batch(st, player_id, api) ==
    IF ~api.read THEN [ok |-> FALSE, store |-> st]
    ELSE LET player_row_to_delete == FirstWithId(st.players, player_id)
             result_rows_to_delete ==
                 {i \in 1..Len(st.results) : st.results[i].player_id = player_id}
         IN  [ok |-> TRUE,
              store |-> [st EXCEPT
                  !.players = IF player_row_to_delete # 0
                              THEN delete_rows_batch(@, {player_row_to_delete},
                                                     api.players).rows
                              ELSE @,
                  !.results = IF result_rows_to_delete # {}
                              THEN delete_rows_batch(@, result_rows_to_delete,
                                                     api.results).rows
                              ELSE @]]

\* the k last positions of the set S of positions
LastOf(S, k) == {i \in S : Cardinality({j \in S : j > i}) < k}

\* lines 177-215: the week's row is deleted, then the rows of its results one
\* request each, from the last to the first.  failed_at = None: no request
\* raises; 0: one raises before the week's row is deleted; k > 0: the week's
\* row and k - 1 rows of results are deleted when one raises
delete_week(st, week_id, failed_at) ==
    LET row_to_delete == FirstWithId(st.weeks, week_id)
        rows_to_delete == {i \in 1..Len(st.results) : st.results[i].week_id = week_id}
        weeks == IF row_to_delete # 0 THEN RemoveAt(st.weeks, {row_to_delete}, 1)
                 ELSE st.weeks
    IN  IF failed_at = None
        THEN [ok |-> TRUE,
              store |-> [st EXCEPT !.weeks = weeks,
                                   !.results = RemoveAt(@, rows_to_delete, 1)]]
        ELSE IF failed_at = 0 THEN [ok |-> FALSE, store |-> st]
        ELSE [ok |-> FALSE,
              store |-> [st EXCEPT !.weeks = weeks,
                                   !.results = RemoveAt(@, LastOf(rows_to_delete,
                                                                  failed_at - 1), 1)]]

\* the requests of delete_player_batch that can raise
PlayerApi == [read : BOOLEAN, players : BOOLEAN, results : BOOLEAN]

\* the places where delete_week can raise: before the week's row is deleted,
\* or after it with fewer than all rows of results deleted
WeekFailures(st, week_id) ==
    LET n == Cardinality({i \in 1..Len(st.results) : st.results[i].week_id = week_id})
    IN  {None} \cup 0..(IF n > 0 THEN n ELSE 1)

\* the ids of the rows of a sheet
IdsOf(rows) == {rows[i].id : i \in 1..Len(rows)}

ClearNothing(confirm, id) == confirm

\* lines 2348-2349 and the like: del st.session_state[confirm_key]
ClearConfirm(confirm, id) == confirm \ {id}

\* lines 2338-2341: Delete Player, shown for a player of the snapshot that is
\* not in confirmation
DeletePlayerClick(s, player_id) ==
    /\ sess[s].loaded
    /\ player_id \in IdsOf(sess[s].data.players)
    /\ player_id \notin sess[s].confirm
    /\ Cardinality(sess[s].confirm) < MaxPending
    /\ sess' = [sess EXCEPT ![s].confirm = @ \cup {player_id}]
    /\ UNCHANGED <<data, ret, store, cache, uuid, clock>>

\* lines 2343-2357: Confirm, shown for a player in confirmation
DeletePlayerConfirm(s, player_id, api) ==
    /\ clock < MaxWrites
    /\ sess[s].loaded
    /\ player_id \in IdsOf(sess[s].data.players)
    /\ player_id \in sess[s].confirm
    /\ LET done == delete_player_batch(store, player_id, api)
       IN  /\ store' = done.store
           /\ cache' = IF done.ok THEN NoCache ELSE cache
    /\ sess' = [sess EXCEPT ![s].confirm = ClearConfirm(@, player_id)]
    /\ clock' = clock + 1
    /\ UNCHANGED <<data, ret, uuid>>

\* lines 2359-2362: Cancel
DeletePlayerCancel(s, player_id) ==
    /\ sess[s].loaded
    /\ player_id \in IdsOf(sess[s].data.players)
    /\ player_id \in sess[s].confirm
    /\ sess' = [sess EXCEPT ![s].confirm = ClearConfirm(@, player_id)]
    /\ UNCHANGED <<data, ret, store, cache, uuid, clock>>

\* lines 2522-2525: Delete Week, shown for a week of the snapshot
DeleteWeekClick(s, week_id) ==
    /\ sess[s].loaded
    /\ week_id \in IdsOf(sess[s].data.weeks)
    /\ week_id \notin sess[s].confirm
    /\ Cardinality(sess[s].confirm) < MaxPending
    /\ sess' = [sess EXCEPT ![s].confirm = @ \cup {week_id}]
    /\ UNCHANGED <<data, ret, store, cache, uuid, clock>>

\* lines 2527-2541: Confirm
DeleteWeekConfirm(s, week_id, failed_at) ==
    /\ clock < MaxWrites
    /\ sess[s].loaded
    /\ week_id \in IdsOf(sess[s].data.weeks)
    /\ week_id \in sess[s].confirm
    /\ failed_at \in WeekFailures(store, week_id)
    /\ LET done == delete_week(store, week_id, failed_at)
       IN  /\ store' = done.store
           /\ cache' = IF done.ok THEN NoCache ELSE cache
    /\ sess' = [sess EXCEPT ![s].confirm = ClearConfirm(@, week_id)]
    /\ clock' = clock + 1
    /\ UNCHANGED <<data, ret, uuid>>

\* lines 2543-2546: Cancel
DeleteWeekCancel(s, week_id) ==
    /\ sess[s].loaded
    /\ week_id \in IdsOf(sess[s].data.weeks)
    /\ week_id \in sess[s].confirm
    /\ sess' = [sess EXCEPT ![s].confirm = ClearConfirm(@, week_id)]
    /\ UNCHANGED <<data, ret, store, cache, uuid, clock>>

\* the ids a delete button can be shown for
PlayerIds == {PlayerIdAt(i) : i \in 1..MaxPlayers}

WeekIds == {WeekIdAt(i) : i \in 1..MaxWeeks}

DeletePlayer(s) == \E player_id \in PlayerIds : DeletePlayerClick(s, player_id)

ConfirmDeletePlayer(s) ==
    \E player_id \in PlayerIds, api \in PlayerApi : DeletePlayerConfirm(s, player_id, api)

CancelDeletePlayer(s) == \E player_id \in PlayerIds : DeletePlayerCancel(s, player_id)

DeleteWeek(s) == \E week_id \in WeekIds : DeleteWeekClick(s, week_id)

ConfirmDeleteWeek(s) ==
    \E week_id \in WeekIds, failed_at \in {None} \cup 0..MaxStoreResults :
        DeleteWeekConfirm(s, week_id, failed_at)

CancelDeleteWeek(s) == \E week_id \in WeekIds : DeleteWeekCancel(s, week_id)

NextDelete ==
    \/ CacheExpire
    \/ \E s \in Sessions :
          \/ LoadData(s)
          \/ RefreshData(s)
          \/ SaveAllResults(s)
          \/ DeletePlayer(s)
          \/ ConfirmDeletePlayer(s)
          \/ CancelDeletePlayer(s)
          \/ DeleteWeek(s)
          \/ ConfirmDeleteWeek(s)
          \/ CancelDeleteWeek(s)

SpecDelete == InitApp /\ [][NextDelete]_vars

\* the delete buttons alone, with the loading and the refreshing of the data
NextConfirm ==
    \/ CacheExpire
    \/ \E s \in Sessions :
          \/ LoadData(s)
          \/ RefreshData(s)
          \/ DeletePlayer(s)
          \/ ConfirmDeletePlayer(s)
          \/ CancelDeletePlayer(s)
          \/ DeleteWeek(s)
          \/ ConfirmDeleteWeek(s)
          \/ CancelDeleteWeek(s)

SpecConfirm == InitApp /\ [][NextConfirm]_vars

(***************************************************************************)
(* 'Add Players' and 'Update Player'.                                       *)
(***************************************************************************)
\* str.strip() on the texts of the model: a text with a blank in front loses
\* it, a text of blanks becomes empty
Strip(text) ==
    IF text = " Bob" THEN "Bob"
    ELSE IF text = " Carol" THEN "Carol"
    ELSE IF text = " " THEN ""
    ELSE text

\* the lines typed into 'Player Names' and the texts typed into 'Player Name'
TypedNames == {"Bob", "Carol", " Bob", " Carol", " "}

\* lines 89-91: the k-th id that uuid4 gives
generate_id(k) ==
    IF k = 1 THEN "u1" ELSE IF k = 2 THEN "u2" ELSE IF k = 3 THEN "u3"
    ELSE IF k = 4 THEN "u4" ELSE IF k = 5 THEN "u5" ELSE IF k = 6 THEN "u6"
    ELSE IF k = 7 THEN "u7" ELSE "u8"

\* the names of the rows of a players sheet
NamesOf(players) == {players[i].name : i \in 1..Len(players)}

\* lines 423-435: the rows to append, one for each name that is not empty
\* after strip() and neither in the sheet nor earlier in the batch
RECURSIVE NewPlayers(_, _, _)
NewPlayers(player_names, existing_names, next_id) ==
    IF player_names = <<>> THEN <<>>
    ELSE LET name == Strip(Head(player_names))
         IN  IF name # "" /\ name \notin existing_names
             THEN <<[id |-> generate_id(next_id), name |-> name]>>
                  \o NewPlayers(Tail(player_names), existing_names \cup {name},
                                next_id + 1)
             ELSE NewPlayers(Tail(player_names), existing_names, next_id)

\* lines 412-447: add_players_batch on the players sheet; the rows are
\* appended in one request
add_players_batch(players, player_names, next_id, request_ok) ==
    LET batch_data == NewPlayers(player_names, NamesOf(players), next_id)
    IN  IF batch_data # <<>> /\ request_ok
        THEN [ok |-> TRUE, players |-> players \o batch_data, new_players |-> batch_data]
        ELSE [ok |-> FALSE, players |-> players, new_players |-> <<>>]

\* line 2231: the lines of the text area, stripped, without the empty ones
RECURSIVE StrippedLines(_)
StrippedLines(lines) ==
    IF lines = <<>> THEN <<>>
    ELSE (IF Strip(Head(lines)) # "" THEN <<Strip(Head(lines))>> ELSE <<>>)
         \o StrippedLines(Tail(lines))

\* lines 2229-2251: Add Players
AddPlayers(s) ==
    /\ clock < MaxWrites
    /\ sess[s].loaded
    /\ \E lines \in SeqsUpTo(TypedNames, MaxLines), request_ok \in BOOLEAN :
         LET player_names == StrippedLines(lines)
             done == add_players_batch(store.players, player_names, uuid + 1, request_ok)
         IN  IF player_names # <<>> /\ done.ok /\ done.new_players # <<>>
             THEN /\ store' = [store EXCEPT !.players = done.players]
                  /\ uuid' = uuid + Len(done.new_players)
                  /\ cache' = NoCache
                  /\ clock' = clock + 1
             ELSE UNCHANGED <<store, uuid, cache, clock>>
    /\ UNCHANGED <<data, ret, sess>>

\* lines 774-797: update_player_name_batch on the players sheet
update_player_name_batch(players, player_id, new_name, request_ok) ==
    LET i == FirstWithId(players, player_id)
    IN  IF ~request_ok \/ i = 0 THEN [ok |-> FALSE, players |-> players]
        ELSE [ok |-> TRUE, players |-> [players EXCEPT ![i].name = new_name]]

\* line 2316: the name looked up among the names of the snapshot is the text
\* as typed
NameChecked(new_name) == new_name

\* lines 2313-2329: Update Player, for a player of the snapshot
UpdatePlayer(s) ==
    /\ clock < MaxWrites
    /\ sess[s].loaded
    /\ \E k \in 1..Len(sess[s].data.players),
          new_name \in TypedNames \cup NamesOf(sess[s].data.players),
          request_ok \in BOOLEAN :
         LET player == sess[s].data.players[k]
             done == update_player_name_batch(store.players, player.id,
                                              Strip(new_name), request_ok)
         IN  IF /\ Strip(new_name) # ""
                /\ new_name # player.name
                /\ NameChecked(new_name) \notin NamesOf(sess[s].data.players)
                /\ done.ok
             THEN /\ store' = [store EXCEPT !.players = done.players]
                  /\ cache' = NoCache
                  /\ clock' = clock + 1
             ELSE UNCHANGED <<store, cache, clock>>
    /\ UNCHANGED <<data, ret, sess, uuid>>

NextPlayers ==
    \/ CacheExpire
    \/ \E s \in Sessions :
          \/ LoadData(s)
          \/ RefreshData(s)
          \/ AddPlayers(s)
          \/ UpdatePlayer(s)

SpecPlayers == InitApp /\ [][NextPlayers]_vars

(***************************************************************************)
(* 'Add Week' and 'Update Week'.                                            *)
(***************************************************************************)
\* the pairs (season_year, week_number) of the rows of a weeks sheet
WeekKeys(weeks) ==
    {<<weeks[i].season_year, weeks[i].week_number>> : i \in 1..Len(weeks)}

\* lines 449-470: add_week_batch on the weeks sheet
add_week_batch(weeks, week_data, next_id, request_ok) ==
    IF <<week_data.season_year, week_data.week_number>> \in WeekKeys(weeks)
    THEN [ok |-> FALSE, weeks |-> weeks]
    ELSE IF ~request_ok THEN [ok |-> FALSE, weeks |-> weeks]
    ELSE [ok |-> TRUE,
          weeks |-> Append(weeks, [id |-> generate_id(next_id),
                                   season_year |-> week_data.season_year,
                                   week_number |-> week_data.week_number,
                                   total_games |-> week_data.total_games])]

\* lines 2383-2414: Add Week, in the season chosen in the sidebar
AddWeek(s) ==
    /\ clock < MaxWrites
    /\ sess[s].loaded
    /\ \E week_number \in 1..(MaxWeeks + 1), total_games \in 1..MaxGames,
          current_season \in Seasons, request_ok \in BOOLEAN :
         LET done == add_week_batch(store.weeks,
                                    [season_year |-> current_season,
                                     week_number |-> week_number,
                                     total_games |-> total_games],
                                    uuid + 1, request_ok)
         IN  IF done.ok
             THEN /\ store' = [store EXCEPT !.weeks = done.weeks]
                  /\ uuid' = uuid + 1
                  /\ cache' = NoCache
                  /\ clock' = clock + 1
             ELSE UNCHANGED <<store, uuid, cache, clock>>
    /\ UNCHANGED <<data, ret, sess>>

NextWeeks ==
    \/ CacheExpire
    \/ \E s \in Sessions :
          \/ LoadData(s)
          \/ RefreshData(s)
          \/ AddWeek(s)
          \/ UpdateWeek(s)

SpecWeeks == InitApp /\ [][NextWeeks]_vars

(***************************************************************************)
(* What the claims about calculate_standings speak of, defined on the      *)
(* snapshot itself (not through the code's intermediate tables).           *)
(***************************************************************************)
RECURSIVE SumOver(_, _)
SumOver(f, S) ==
    IF S = {} THEN 0
    ELSE LET x == CHOOSE y \in S : TRUE IN f[x] + SumOver(f, S \ {x})

Called == ret.fn = "calculate_standings"

\* positions of the players with the given name
PlayersNamed(d, player_name) ==
    {i \in 1..Len(d.players) : d.players[i].name = player_name}

\* positions of the weeks in scope of a call
InScope(d, season_year, week_number) ==
    {i \in 1..Len(d.weeks) :
        /\ d.weeks[i].season_year = season_year
        /\ (week_number = None \/ d.weeks[i].week_number = week_number)}

\* positions of the results of a (player, week) pair
ResultsOf(d, pid, wid) ==
    {j \in 1..Len(d.results) : d.results[j].player_id = pid /\ d.results[j].week_id = wid}

\* each (player, week) pair has at most one Result
NoDuplicateResults(d) ==
    \A j, k \in 1..Len(d.results) :
        (d.results[j].player_id = d.results[k].player_id
         /\ d.results[j].week_id = d.results[k].week_id) => j = k

\* positions of the in-scope weeks for which the player has a participated Result
ParticipatedWeeks(d, pid, scope) ==
    {i \in scope : \E j \in ResultsOf(d, pid, d.weeks[i].id) :
                      d.results[j].status = "participated"}

TotalGames(d) == [i \in 1..Len(d.weeks) |-> d.weeks[i].total_games]

\* the score of the player's participated Result for the week at position i
ScoreOf(d, pid) ==
    [i \in 1..Len(d.weeks) |->
        LET js == {j \in ResultsOf(d, pid, d.weeks[i].id) :
                     d.results[j].status = "participated"}
        IN  IF js = {} THEN 0 ELSE d.results[CHOOSE j \in js : TRUE].correct_guesses]

\* C1: for a snapshot with at most one Result per (player, week) pair and at
\* least one week in scope, every player gets a row whose possible_absolute is
\* the sum of total_games over all weeks in scope, whose correct_absolute and
\* correct_adjusted are the sum of correct_guesses over the weeks in scope with
\* a participated Result, whose possible_adjusted is the sum of total_games
\* over those weeks and whose weeks_adjusted is their number.
C1_StandingsTotals ==
    (Called /\ NoDuplicateResults(data)) =>
        LET scope == InScope(data, ret.season_year, ret.week_number)
        IN  scope # {} =>
              \A i \in 1..Len(data.players) :
                 LET pw == ParticipatedWeeks(data, data.players[i].id, scope)
                 IN  /\ i \in DOMAIN ret.out.rows
                     /\ ret.out.rows[i].possible_absolute = SumOver(TotalGames(data), scope)
                     /\ ret.out.rows[i].correct_absolute
                            = SumOver(ScoreOf(data, data.players[i].id), pw)
                     /\ ret.out.rows[i].correct_adjusted
                            = SumOver(ScoreOf(data, data.players[i].id), pw)
                     /\ ret.out.rows[i].possible_adjusted = SumOver(TotalGames(data), pw)
                     /\ ret.out.rows[i].weeks_adjusted = Cardinality(pw)

\* The same statement for the snapshots that hold at least one Result.
C1_TotalsWhenResultsExist ==
    data.results # <<>> => C1_StandingsTotals

\* C2: in every row returned, weeks_absolute = weeks_adjusted + omitted_weeks.
C2_Conservation ==
    Called =>
        \A i \in DOMAIN ret.out.rows :
            ret.out.rows[i].weeks_absolute
                = ret.out.rows[i].weeks_adjusted + ret.out.rows[i].omitted_weeks

C2_Witness ==
    /\ Called
    /\ \E i \in DOMAIN ret.out.rows :
          /\ ret.out.rows[i].weeks_adjusted = 1
          /\ ret.out.rows[i].omitted_weeks = 1
          /\ ret.out.rows[i].weeks_absolute = 2

\* every participated Result of an existing week has 0 <= correct_guesses <= total_games
ScoresInRange(d) ==
    \A j \in 1..Len(d.results) : \A i \in 1..Len(d.weeks) :
        (d.results[j].status = "participated" /\ d.results[j].week_id = d.weeks[i].id)
            => (0 <= d.results[j].correct_guesses
                /\ d.results[j].correct_guesses <= d.weeks[i].total_games)

ValidSnapshot(d) == ScoresInRange(d) /\ NoDuplicateResults(d)

\* C3: for a valid snapshot, both accuracies of every row returned lie in
\* 0..100 percent (0..1000 tenths).
C3_AccuracyBound ==
    (Called /\ ValidSnapshot(data)) =>
        \A i \in DOMAIN ret.out.rows :
            /\ 0 <= ret.out.rows[i].accuracy_absolute
            /\ ret.out.rows[i].accuracy_absolute <= 1000
            /\ 0 <= ret.out.rows[i].accuracy_adjusted
            /\ ret.out.rows[i].accuracy_adjusted <= 1000

C3_Witness ==
    /\ Called
    /\ ValidSnapshot(data)
    /\ \E i \in DOMAIN ret.out.rows :
          /\ ret.out.rows[i].accuracy_adjusted = 1000
          /\ ret.out.rows[i].accuracy_absolute = 500
          /\ ret.out.rows[i].possible_absolute = 2 * MaxGames

\* the snapshot in which only the first Result of each (player, week) pair exists
FirstOnly(d) ==
    LET IsFirst(j) == \A k \in 1..(j - 1) :
                         ~(d.results[k].player_id = d.results[j].player_id
                           /\ d.results[k].week_id = d.results[j].week_id)
        keep == {j \in 1..Len(d.results) : IsFirst(j)}
        RECURSIVE Pick(_)
        Pick(j) == IF j > Len(d.results) THEN <<>>
                   ELSE IF j \in keep THEN <<d.results[j]>> \o Pick(j + 1)
                   ELSE Pick(j + 1)
    IN  [d EXCEPT !.results = Pick(1)]

\* C9: with several Results for one (player, week) pair, the table equals the
\* table of the snapshot in which only the first Result of each pair exists.
C9_FirstResultWins ==
    (Called /\ ~NoDuplicateResults(data)) =>
        ret.out = calculate_standings(FirstOnly(data), ret.season_year, ret.week_number)

\* C10: with at least one player and one week in scope there is exactly one
\* row per player, in the order of the players collection.
C10_OneRowPerPlayer ==
    (Called /\ data.players # <<>>
            /\ InScope(data, ret.season_year, ret.week_number) # {}) =>
        /\ Len(ret.out.rows) = Len(data.players)
        /\ \A i \in 1..Len(data.players) :
              ret.out.rows[i].player_name = data.players[i].name

\* C11: the table is empty and nothing is raised when there is no player, no
\* week, or no week of the requested season_year (and week_number, if given).
C11_EmptyTable ==
    (Called /\ (\/ data.players = <<>>
                \/ data.weeks = <<>>
                \/ InScope(data, ret.season_year, ret.week_number) = {})) =>
        /\ ret.out.rows = <<>>
        /\ ~ret.out.caught

C11_Witness ==
    /\ Called
    /\ data.players # <<>>
    /\ data.results # <<>>
    /\ ret.week_number # None
    /\ InScope(data, ret.season_year, None) # {}
    /\ InScope(data, ret.season_year, ret.week_number) = {}
    /\ ret.out.rows = <<>>
    /\ ~ret.out.caught

\* the snapshot without the Results attached to a week out of scope
WithoutOtherWeeks(d, scope) ==
    LET Attached(r) == r.week_id \in {d.weeks[i].id : i \in scope}
    IN  [d EXCEPT !.results = SelectSeq(d.results, Attached)]

\* C12: weeks_absolute of every row is the number of weeks of the requested
\* season_year (and week_number, if given), and the table is the table of the
\* snapshot without the Results attached to any other week.
C12_ScopeOnly ==
    Called =>
        LET scope == InScope(data, ret.season_year, ret.week_number)
        IN  /\ \A i \in DOMAIN ret.out.rows :
                  ret.out.rows[i].weeks_absolute = Cardinality(scope)
            /\ ret.out = calculate_standings(WithoutOtherWeeks(data, scope),
                                             ret.season_year, ret.week_number)

\* The same statement for the snapshots in which a Result attached to a week
\* in scope exists.
C12_ScopeOnlyWhenResultsRemain ==
    \/ /\ Called
       /\ WithoutOtherWeeks(data, InScope(data, ret.season_year,
                                          ret.week_number)).results = <<>>
    \/ C12_ScopeOnly

CalledTrends == ret.fn = "calculate_improvement_trends"

\* C6: a player is labelled "Stable" exactly when |slope| < 0.5, "Improving"
\* exactly when slope > 0.5 and "Declining" exactly when slope <= -0.5.
C6_TrendCategory ==
    CalledTrends =>
        \A i \in DOMAIN ret.out.rows :
            LET row == ret.out.rows[i]
            IN  ~row.slope.nan =>
                  /\ row.trend_category = "Stable" <=> 2 * Abs(row.slope.num) < row.slope.den
                  /\ row.trend_category = "Improving" <=> 2 * row.slope.num > row.slope.den
                  /\ row.trend_category = "Declining" <=> 2 * row.slope.num <= -row.slope.den

\* C7: with a week of total_games = 0 in scope nothing is raised and no number
\* that calculate_standings or calculate_improvement_trends outputs is NaN or
\* infinite.
C7_NoNaNOutput ==
    /\ (Called /\ \E i \in InScope(data, ret.season_year, ret.week_number) :
                     data.weeks[i].total_games = 0)
          => (~ret.out.caught \/ data.results = <<>>)
    /\ (CalledTrends /\ \E i \in InScope(data, ret.season_year, None) :
                           data.weeks[i].total_games = 0)
          => /\ ~ret.out.caught
             /\ \A i \in DOMAIN ret.out.rows :
                   /\ ~ret.out.rows[i].slope.nan
                   /\ ~ret.out.rows[i].r_squared.nan
                   /\ \A k \in DOMAIN ret.out.rows[i].accuracies :
                         IsFinite(ret.out.rows[i].accuracies[k])

\* positions of the player's participated Results attached to a week of the season
ParticipatedInSeason(d, pid, season_year) ==
    {j \in 1..Len(d.results) :
        /\ d.results[j].player_id = pid
        /\ d.results[j].status = "participated"
        /\ \E i \in InScope(d, season_year, None) : d.weeks[i].id = d.results[j].week_id}

\* C18: there is a record for a player exactly when the player has at least
\* min_weeks participated Results attached to weeks of the requested season;
\* weeks_played of the record is that number, and no player has two records.
C18_RecordIffEnoughWeeks ==
    CalledTrends =>
        /\ \A i \in 1..Len(data.players) :
              LET n == Cardinality(ParticipatedInSeason(data, data.players[i].id,
                                                        ret.season_year))
                  mine == {k \in DOMAIN ret.out.rows :
                             ret.out.rows[k].player_name = data.players[i].name}
              IN  /\ n >= MinWeeks <=> mine # {}
                  /\ Cardinality(mine) <= 1
                  /\ \A k \in mine : ret.out.rows[k].weeks_played = n
        /\ \A k \in DOMAIN ret.out.rows :
              PlayersNamed(data, ret.out.rows[k].player_name) # {}

C18_Witness ==
    /\ CalledTrends
    /\ Len(data.players) = MaxPlayers
    /\ Len(data.results) > MinWeeks
    /\ \E j \in 1..Len(data.results) : data.results[j].status = "omitted"
    /\ Len(ret.out.rows) = 1
    /\ ret.out.rows[1].weeks_played = MinWeeks

\* C19: a record is "Meaningful" exactly when |slope| >= 0.75 and
\* r_squared >= 0.25, for the unrounded slope and r_squared of the player's
\* regression, and "Inconclusive" otherwise.
C19_Significance ==
    CalledTrends =>
        \A k \in DOMAIN ret.out.rows :
            LET row == ret.out.rows[k]
                meaningful == /\ ~row.slope.nan
                              /\ ~row.r_squared.nan
                              /\ 4 * Abs(row.slope.num) >= 3 * row.slope.den
                              /\ 4 * row.r_squared.num >= row.r_squared.den
            IN  row.trend_significance
                    = IF meaningful THEN "Meaningful" ELSE "Inconclusive"

C19_Witness ==
    /\ CalledTrends
    /\ \E k \in DOMAIN ret.out.rows :
          /\ ret.out.rows[k].trend_significance = "Meaningful"
          /\ ret.out.rows[k].r_squared.num < ret.out.rows[k].r_squared.den

(***************************************************************************)
(* Claims about linear_regression_improved.                                *)
(***************************************************************************)
CalledRegression == ret.fn = "linear_regression_improved"

AllIdentical(x) == \A i, j \in 1..Len(x) : x[i] = x[j]

\* the week of the Result at position j of d.results
WeekOfResult(d, j) ==
    d.weeks[CHOOSE i \in 1..Len(d.weeks) : d.weeks[i].id = d.results[j].week_id]

\* the accuracy in percent of the Result at position j, as a fraction
PercentOfResult(d, j) ==
    [num |-> 100 * d.results[j].correct_guesses, den |-> WeekOfResult(d, j).total_games]

\* the Results at positions P lie on consecutive weeks, each with games, and
\* their accuracies grow by the fraction step from one week to the next
IsProgression(d, P, step) ==
    /\ \A j \in P : WeekOfResult(d, j).total_games > 0
    /\ \A j \in P : \A l \in P :
          j # l => WeekOfResult(d, j).week_number # WeekOfResult(d, l).week_number
    /\ \A j \in P :
          \/ \A l \in P : WeekOfResult(d, l).week_number <= WeekOfResult(d, j).week_number
          \/ \E l \in P :
                /\ WeekOfResult(d, l).week_number = WeekOfResult(d, j).week_number + 1
                /\ (PercentOfResult(d, l).num * PercentOfResult(d, j).den
                      - PercentOfResult(d, j).num * PercentOfResult(d, l).den) * step.den
                   = step.num * PercentOfResult(d, l).den * PercentOfResult(d, j).den

\* the steps a progression of the model can have, in percent per week
ProgressionSteps ==
    {[num |-> 100 * c, den |-> TrendGames] : c \in (0 - MaxGames)..MaxGames}

EarliestOf(d, P, n) ==
    {j \in P : Cardinality({l \in P : WeekOfResult(d, l).week_number
                                        < WeekOfResult(d, j).week_number}) < n}

\* the positions of P with fewer than n positions of P on a later week
LatestOf(d, P, n) ==
    {j \in P : Cardinality({l \in P : WeekOfResult(d, l).week_number
                                        > WeekOfResult(d, j).week_number}) < n}

\* the correct guesses of the Results at positions P, added up
GuessesOver(d, P) == SumOver([j \in 1..Len(d.results) |-> d.results[j].correct_guesses], P)

\* C22: the early average of a record is the mean accuracy of the min_weeks
\* participated weeks with the lowest week numbers and the recent average that
\* of the min_weeks with the highest, in whatever order the Results and Weeks
\* are stored; the improvement is their difference, 0 when weeks_played is
\* min_weeks. (Stated for weeks that all have the same positive total_games.)
C22_EarlyRecent ==
    CalledTrends =>
        \A i \in 1..Len(data.players) : \A k \in DOMAIN ret.out.rows :
            LET row == ret.out.rows[k]
                P == ParticipatedInSeason(data, data.players[i].id, ret.season_year)
                t == WeekOfResult(data, CHOOSE j \in P : TRUE).total_games
                early == 100 * GuessesOver(data, EarliestOf(data, P, MinWeeks))
                recent == 100 * GuessesOver(data, LatestOf(data, P, MinWeeks))
            IN  (/\ row.player_name = data.players[i].name
                 /\ Cardinality(P) >= MinWeeks
                 /\ \A j \in P : WeekOfResult(data, j).total_games = t /\ t > 0)
                => /\ ~row.mean_early.nan /\ ~row.mean_recent.nan /\ ~row.mean_difference.nan
                   /\ row.mean_early.num * MinWeeks * t = early * row.mean_early.den
                   /\ row.mean_recent.num * MinWeeks * t = recent * row.mean_recent.den
                   /\ row.mean_difference.num * MinWeeks * t
                         = (recent - early) * row.mean_difference.den
                   /\ row.improvement = RoundScaled(recent - early, MinWeeks * t, 10)
                   /\ row.weeks_played = MinWeeks => row.improvement = 0

C22_Witness ==
    /\ CalledTrends
    /\ Len(ret.out.rows) = 1
    /\ data.weeks[1].week_number > data.weeks[2].week_number
    /\ ret.out.rows[1].weeks_played = MinWeeks + 1
    /\ \A j \in 1..Len(data.weeks) : data.weeks[j].total_games = TrendGames
    /\ ret.out.rows[1].mean_difference.num > 0
    /\ ret.out.rows[1].improvement > 0

\* C20: with fewer than 3 points, with x and y of different lengths, or with
\* x values that are all identical, the slope is 0 and the result is not
\* significant (and with identical x the intercept is the mean of y);
\* otherwise the slope is (n*Sxy - Sx*Sy) / (n*Sxx - Sx*Sx).
C20_RegressionCases ==
    CalledRegression =>
        LET x == data.x
            y == data.y
            n == Len(x)
            out == ret.out
            Sx == SumSeq(x)
            Sy == SumSeq(y)
            Sxx == SumSeq([i \in 1..n |-> x[i] * x[i]])
        IN  IF Len(x) < 3 \/ Len(y) < 3 \/ Len(x) # Len(y)
            THEN ~out.slope.nan /\ out.slope.num = 0 /\ ~out.is_significant
            ELSE IF AllIdentical(x)
            THEN /\ ~out.slope.nan /\ out.slope.num = 0 /\ ~out.is_significant
                 /\ ~out.intercept.nan
                 /\ out.intercept.num * n = Sy * out.intercept.den
            ELSE /\ ~out.slope.nan
                 /\ out.slope.num * (n * Sxx - Sx * Sx)
                       = (n * SumSeq([i \in 1..n |-> x[i] * y[i]]) - Sx * Sy)
                           * out.slope.den

C20_Witness ==
    /\ CalledRegression
    /\ Len(data.x) = MaxPoints
    /\ Len(data.y) = MaxPoints
    /\ AllIdentical(data.x)
    /\ ~AllIdentical(data.y)
    /\ ret.out.slope.num = 0
    /\ ret.out.intercept.num > 0

(***************************************************************************)
(* Claims about get_player_history and get_rolling_averages.               *)
(***************************************************************************)
CalledHistory == ret.fn = "get_player_history"

CalledRolling == ret.fn = "get_rolling_averages"

\* C14: for an existing player and a season with at least one week, the
\* history has exactly one row per week of the season, and the row of a week
\* for which the player has no Result has status "no_result" and
\* correct_guesses 0, whatever the Results collection (an empty one included).
C14_OneRowPerWeek ==
    (CalledHistory /\ PlayersNamed(data, ret.player_name) # {}
                   /\ InScope(data, ret.season_year, None) # {}) =>
        LET p == CHOOSE i \in PlayersNamed(data, ret.player_name) : TRUE
            scope == InScope(data, ret.season_year, None)
        IN  /\ Len(ret.out.rows) = Cardinality(scope)
            /\ \A i \in scope : \E k \in DOMAIN ret.out.rows :
                  /\ ret.out.rows[k].week_number = data.weeks[i].week_number
                  /\ ResultsOf(data, data.players[p].id, data.weeks[i].id) = {}
                        => /\ ret.out.rows[k].status = "no_result"
                           /\ ret.out.rows[k].correct_guesses = 0

\* The same statement for the snapshots that hold at least one Result.
C14_RowsWhenResultsExist ==
    data.results # <<>> => C14_OneRowPerWeek

\* C15: in every row of the history the accuracy is defined only when the
\* status is participated and total_games > 0 (and then it is a quotient by a
\* positive number); rows with status omitted or no_result and rows of a week
\* with total_games = 0 have a null accuracy.
C15_AccuracyDefined ==
    CalledHistory =>
        \A k \in DOMAIN ret.out.rows :
            LET row == ret.out.rows[k]
            IN  /\ ~row.accuracy.null =>
                     /\ row.status = "participated"
                     /\ row.total_games > 0
                     /\ row.accuracy.den > 0
                /\ (row.status \in {"omitted", "no_result"} \/ row.total_games = 0)
                     => row.accuracy.null

C15_Witness ==
    /\ CalledHistory
    /\ \E k \in DOMAIN ret.out.rows :
          /\ ret.out.rows[k].status = "participated"
          /\ ret.out.rows[k].total_games = 0
          /\ ret.out.rows[k].accuracy.null
    /\ \E k \in DOMAIN ret.out.rows :
          /\ ret.out.rows[k].status = "participated"
          /\ ret.out.rows[k].correct_guesses = 1
          /\ ret.out.rows[k].accuracy = Frac(100, MaxGames)
    /\ \E k \in DOMAIN ret.out.rows : ret.out.rows[k].status = "omitted"

Ascending(rows) ==
    \A k \in 1..(Len(rows) - 1) : rows[k].week_number <= rows[k + 1].week_number

\* C16: the rows of the history are in ascending week_number order whatever
\* the order of the weeks and of the results, and get_rolling_averages returns
\* the participated rows of that history, in the same ascending order.
C16_AscendingWeeks ==
    /\ CalledHistory => Ascending(ret.out.rows)
    /\ (CalledRolling /\ ret.out.rows # <<>>) =>
          LET history == get_player_history(data, ret.player_name, ret.season_year).rows
              Participated(r) == r.status = "participated"
              participated == SelectSeq(history, Participated)
          IN  /\ Ascending(ret.out.rows)
              /\ Len(ret.out.rows) = Len(participated)
              /\ \A k \in DOMAIN ret.out.rows :
                    /\ ret.out.rows[k].week_number = participated[k].week_number
                    /\ ret.out.rows[k].correct_guesses = participated[k].correct_guesses

C16_Witness ==
    /\ CalledRolling
    /\ Len(ret.out.rows) = Window
    /\ data.weeks[1].week_number > data.weeks[2].week_number
    /\ data.results[1].week_id = data.weeks[1].id
    /\ ret.out.rows[1].week_number < ret.out.rows[Window].week_number

\* C17: the history is empty, and nothing is raised, when no player has the
\* given name.
C17_UnknownPlayer ==
    (CalledHistory /\ PlayersNamed(data, ret.player_name) = {}) =>
        /\ ret.out.rows = <<>>
        /\ ~ret.out.caught

C17_Witness ==
    /\ CalledHistory
    /\ PlayersNamed(data, ret.player_name) = {}
    /\ data.players # <<>>
    /\ data.results # <<>>
    /\ InScope(data, ret.season_year, None) # {}
    /\ ret.out.rows = <<>>
    /\ ~ret.out.caught

(***************************************************************************)
(* Claims about malformed cells.                                           *)
(***************************************************************************)
MalformedWeek(w) ==
    w.season_year = Blank \/ w.week_number = Blank \/ w.total_games = Blank

MalformedResult(r) == r.status = "participated" /\ r.correct_guesses = Blank

\* the snapshot without the records that hold a malformed numeric cell
WellFormedPart(d) ==
    LET GoodWeek(w) == ~MalformedWeek(w)
        GoodResult(r) == ~MalformedResult(r)
    IN  [d EXCEPT !.weeks = SelectSeq(d.weeks, GoodWeek),
                  !.results = SelectSeq(d.results, GoodResult)]

HasMalformed(d) == WellFormedPart(d) # d

\* the positions of the trailing window that ends at position i
WindowAt(i) == {k \in 1..i : k > i - Window}

\* the positions of a set at which the row has an accuracy
WithAccuracy(rows, S) == {k \in S : ~rows[k].accuracy.null}

RECURSIVE ProductOver(_, _)
ProductOver(f, S) ==
    IF S = {} THEN 1
    ELSE LET x == CHOOSE y \in S : TRUE IN f[x] * ProductOver(f, S \ {x})

\* v is the mean of the accuracies (100 * correct_guesses / total_games) of
\* the rows at the positions D, none of them with total_games = 0
IsMeanOf(v, rows, D) ==
    LET all == ProductOver([k \in DOMAIN rows |-> rows[k].total_games], D)
        sum == SumOver([k \in DOMAIN rows |->
                          IF k \in D
                          THEN 100 * rows[k].correct_guesses * (all \div rows[k].total_games)
                          ELSE 0], D)
    IN  /\ ~v.null
        /\ v.num * Cardinality(D) * all = sum * v.den

C24_RowsIffEnough ==
    CalledRolling =>
        LET named == PlayersNamed(data, ret.player_name)
            P == IF named = {} THEN {}
                 ELSE ParticipatedInSeason(
                          data, data.players[CHOOSE i \in named : TRUE].id, ret.season_year)
        IN  IF Cardinality(P) < Window THEN ret.out.rows = <<>>
            ELSE /\ Len(ret.out.rows) = Cardinality(P)
                 /\ \A k \in DOMAIN ret.out.rows : ret.out.rows[k].status = "participated"
                 /\ \A j \in P : \E k \in DOMAIN ret.out.rows :
                       /\ ret.out.rows[k].week_number = WeekOfResult(data, j).week_number
                       /\ ret.out.rows[k].correct_guesses = data.results[j].correct_guesses

C24_Witness ==
    /\ CalledRolling
    /\ Len(data.players) = MaxPlayers
    /\ Len(data.results) = Window + 1
    /\ \E j \in 1..Len(data.results) : data.results[j].status = "omitted"
    /\ Len(ret.out.rows) = Window

\* C25: every Result of the store references a Player and a Week of the store.
C25_ReferentialIntegrity ==
    \A j \in 1..Len(store.results) :
        /\ store.results[j].player_id \in IdsOf(store.players)
        /\ store.results[j].week_id \in IdsOf(store.weeks)

\* the rows of a sheet whose field is not the id
RowsWithout(rows, field, id) ==
    LET Other(r) == r[field] # id
    IN  SelectSeq(rows, Other)

\* C26: when delete_player_batch (resp. delete_week) reports success, the store
\* holds neither that Player (resp. Week) nor a Result of it, and every other
\* Player, Week and Result is unchanged.
C26_DeleteReportsTruth ==
    [][/\ \A s \in Sessions : \A player_id \in PlayerIds : \A api \in PlayerApi :
             (DeletePlayerConfirm(s, player_id, api)
                /\ delete_player_batch(store, player_id, api).ok)
             => /\ store'.players = RowsWithout(store.players, "id", player_id)
                /\ store'.results = RowsWithout(store.results, "player_id", player_id)
                /\ store'.weeks = store.weeks
       /\ \A s \in Sessions : \A week_id \in WeekIds :
             \A failed_at \in {None} \cup 0..MaxStoreResults :
                (DeleteWeekConfirm(s, week_id, failed_at)
                   /\ delete_week(store, week_id, failed_at).ok)
                => /\ store'.weeks = RowsWithout(store.weeks, "id", week_id)
                   /\ store'.results = RowsWithout(store.results, "week_id", week_id)
                   /\ store'.players = store.players]_vars

\* C30: a Player or a Week (and any Result) leaves the store only in a step
\* of 'Confirm' for it, by a session where its confirmation is pending; a
\* confirmation becomes pending only by a click on 'Delete' for that entity in
\* that session, which leaves the store as it is; 'Cancel' clears it and
\* leaves the store as it is; 'Confirm' clears it whether the deletion
\* succeeded or failed.
C30_ConfirmedDeletesOnly ==
    [][/\ \A id \in PlayerIds :
             (id \in IdsOf(store.players) /\ id \notin IdsOf(store'.players))
             => \E s \in Sessions : \E api \in PlayerApi :
                   id \in sess[s].confirm /\ DeletePlayerConfirm(s, id, api)
       /\ \A id \in WeekIds :
             (id \in IdsOf(store.weeks) /\ id \notin IdsOf(store'.weeks))
             => \E s \in Sessions : \E failed_at \in {None} \cup 0..MaxStoreResults :
                   id \in sess[s].confirm /\ DeleteWeekConfirm(s, id, failed_at)
       /\ ~(IdsOf(store.results) \subseteq IdsOf(store'.results))
             => \E s \in Sessions :
                   \/ \E id \in PlayerIds : \E api \in PlayerApi :
                         id \in sess[s].confirm /\ DeletePlayerConfirm(s, id, api)
                   \/ \E id \in WeekIds : \E failed_at \in {None} \cup 0..MaxStoreResults :
                         id \in sess[s].confirm /\ DeleteWeekConfirm(s, id, failed_at)
       /\ \A s \in Sessions : \A id \in PlayerIds \cup WeekIds :
             /\ (id \in sess'[s].confirm /\ id \notin sess[s].confirm)
                   => DeletePlayerClick(s, id) \/ DeleteWeekClick(s, id)
             /\ (DeletePlayerClick(s, id) \/ DeleteWeekClick(s, id))
                   => store' = store
             /\ (DeletePlayerCancel(s, id) \/ DeleteWeekCancel(s, id))
                   => id \notin sess'[s].confirm /\ store' = store
             /\ (\/ \E api \in PlayerApi : DeletePlayerConfirm(s, id, api)
                 \/ \E failed_at \in {None} \cup 0..MaxStoreResults :
                       DeleteWeekConfirm(s, id, failed_at))
                   => id \notin sess'[s].confirm]_vars

\* a confirmed deletion of the first player by the first session, while a
\* deletion of the first week waits for its confirmation in the last session
C30_Witness ==
    /\ PlayerIdAt(1) \notin IdsOf(store.players)
    /\ store.results = <<>>
    /\ sess[1].confirm = {}
    /\ sess[MaxSessions].confirm = {WeekIdAt(1)}
    /\ WeekIdAt(1) \in IdsOf(store.weeks)
    /\ clock = 1

\* C27: the names of the Players of the store are non-empty and pairwise
\* distinct.
C27_DistinctNames ==
    \A i \in 1..Len(store.players) :
        /\ store.players[i].name # ""
        /\ \A j \in 1..Len(store.players) :
              i # j => store.players[i].name # store.players[j].name

\* the names are never empty or made of blanks (this part of C27 holds)
C27_NamesNotEmpty ==
    \A i \in 1..Len(store.players) : Strip(store.players[i].name) # ""

\* C28: no two Weeks of the store have the same season_year and week_number.
C28_DistinctWeeks ==
    \A i \in 1..Len(store.weeks) : \A j \in 1..Len(store.weeks) :
        i # j => \/ store.weeks[i].season_year # store.weeks[j].season_year
                 \/ store.weeks[i].week_number # store.weeks[j].week_number

\* the rows of a sheet
RowsOf(rows) == {rows[i] : i \in 1..Len(rows)}

\* C29: after a write of a session that changed the store, and the rerun that
\* ends the handler, the snapshot of that session holds every row that the
\* write added or changed.
C29_SnapshotHasOwnWrites ==
    [][\A s \in Sessions :
          ((SaveAllResults(s) \/ SaveBulkResults(s) \/ UpdateWeek(s)) /\ store' # store)
          => /\ RowsOf(store'.results) \ RowsOf(store.results)
                   \subseteq RowsOf(sess'[s].data.results)
             /\ RowsOf(store'.weeks) \ RowsOf(store.weeks)
                   \subseteq RowsOf(sess'[s].data.weeks)
             /\ RowsOf(store'.players) \ RowsOf(store.players)
                   \subseteq RowsOf(sess'[s].data.players)]_vars

\* C8: a record with a missing or unparseable numeric cell is left out and
\* the call still returns, for every player, the row computed from the
\* remaining records.
C8_MalformedLeftOut ==
    (Called /\ HasMalformed(data) /\ data.results # <<>>) =>
        LET rest == WellFormedPart(data)
            scope == FilterWeeks(CoerceWeeks(rest.weeks), ret.season_year, ret.week_number)
        IN  (data.players # <<>> /\ scope # <<>>) =>
              /\ ~ret.out.caught
              /\ ret.out.rows = [i \in 1..Len(data.players) |->
                                    StandingsRow(data.players[i], scope,
                                                 CoerceResults(rest.results))]

(***************************************************************************)
(* Claims about the record store.                                          *)
(***************************************************************************)
\* C4: the store holds at most one Result per (player_id, week_id) pair.
C4_OneResultPerPair == NoDuplicateResults(store)

\* C5: every participated Result of the store has
\* 0 <= correct_guesses <= total_games of its Week.
C5_ScoreWithinTotal == ScoresInRange(store)

====
